---- MODULE Spec2Model ----
(***************************************************************************)
(* Model of trans2.py, the bulk meta tag translator page.                  *)
(*                                                                         *)
(* The script is executed top to bottom once per rendering pass.  The      *)
(* session record (st.session_state) survives between passes; everything   *)
(* else is local to a pass.  A pass is started by a widget event.  While   *)
(* a pass is running, a further widget event ends it at the next call      *)
(* that writes an element to the page (the script runner raises its        *)
(* control exception there, which derives from BaseException and passes    *)
(* through "except Exception"); the pass that follows sees the session     *)
(* record as the interrupted pass left it.                                 *)
(***************************************************************************)
EXTENDS Integers, Sequences, FiniteSets, TLC

\* ---------------------------------------------------------------- bounds
MaxRows == 2      \* largest uploaded table
MaxCuts == 1      \* passes cut short by a widget event, per run

\* ------------------------------------------------------- program constants
SkippedMarker == "Skipped (error)"
NoneVal == "<None>"
EmptyStr == ""
TitleAr == "title_ar"
DescAr == "desc_ar"
JsonNull == "<null>"

VARIABLES
    stop_translation,     \* st.session_state.stop_translation
    translation_started,  \* st.session_state.translation_started
    output_data,          \* st.session_state.output_data
    progress,             \* st.session_state.progress
    df,                   \* the rows of the uploaded table (when it is valid)
    pc,                   \* position of the running pass, "idle" between passes
    i,                    \* loop index of df.iterrows(), 1-based
    reply,                \* what requests.post produced for the row in hand
    api_key,              \* the credential field is filled in (most recent pass)
    uploaded_file,        \* what the file uploader holds (most recent pass)
    call_log,             \* history: row indices handed to the translator since the last Start
    cuts,                 \* history: passes cut short since the last Start
    restarted,            \* history: the last Start press discarded rows of an earlier run
    download,             \* what st.download_button offers on the page, if anything
    last_pass             \* history: how the most recent pass ended

vars == <<stop_translation, translation_started, output_data, progress, df,
          pc, i, reply, api_key, uploaded_file, call_log, cuts, restarted,
          download, last_pass>>

inputs == <<api_key, uploaded_file>>

history == <<call_log, cuts, restarted>>

session == <<stop_translation, translation_started, output_data, progress>>

\* ------------------------------------------------------------------ input
InputRow(k) == [title |-> "title " \o ToString(k),
                description |-> "description " \o ToString(k)]

Table(n) == [k \in 1..n |-> InputRow(k)]

UploadedFiles == {"none", "no_title", "no_description", "no_columns", "ok"}

HasTitle(file) == file \in {"ok", "no_description"}

HasDescription(file) == file \in {"ok", "no_title"}

\* variant: the credential is not looked at
Ready_FileOnly(key, file) == file # "none"

\* line 102
Ready(key, file) == file # "none" /\ key

\* variant: the validation rejects a table only when both columns are missing
ColumnsPresent_EitherOne(file) == HasTitle(file) \/ HasDescription(file)

\* line 105, negated
ColumnsPresent(file) == ~(~HasTitle(file) \/ ~HasDescription(file))

NoDownload == [offered |-> FALSE, data |-> << >>]

\* the widgets are read at the top of a pass; the page of the pass before,
\* its download button included, is replaced
ReadInputs(key, file) ==
    /\ api_key' = key
    /\ uploaded_file' = file
    /\ download' = NoDownload

total_rows == Len(df)

\* ------------------------------------------------------------- translator
JsonKeys == {"title", "description"}

\* content that json.loads turns into a dict: both members, a member that is
\* null, a member that is absent
JsonObjects ==
    { [k \in JsonKeys |-> "text"],
      [k \in JsonKeys |-> IF k = "title" THEN JsonNull ELSE "text"],
      [k \in JsonKeys |-> IF k = "description" THEN JsonNull ELSE "text"],
      [k \in {"description"} |-> "text"] }

FailureKinds == {"transport_error", "http_error", "no_choices", "bad_json", "not_object"}

Replies ==
    { [kind |-> k, data |-> << >>] : k \in FailureKinds }
    \cup { [kind |-> "object", data |-> d] : d \in JsonObjects }

\* json.loads of a member: null becomes None, a string stays itself
Loaded(key, v) ==
    IF v = JsonNull THEN NoneVal
    ELSE IF key = "title" THEN TitleAr ELSE DescAr

\* dict.get(key, default)
Get(data, key, default) ==
    IF key \in DOMAIN data THEN Loaded(key, data[key]) ELSE default

\* variant: content that is valid JSON but not an object is read with the
\* defaults instead of being reported
translate_meta_tags_DefaultsForNonObject(r) ==
    IF r.kind = "object"
    THEN <<Get(r.data, "title", EmptyStr), Get(r.data, "description", EmptyStr)>>
    ELSE IF r.kind = "not_object"
         THEN <<EmptyStr, EmptyStr>>
         ELSE <<NoneVal, NoneVal>>

translate_meta_tags(r) ==
    IF r.kind = "object"
    THEN <<Get(r.data, "title", EmptyStr), Get(r.data, "description", EmptyStr)>>
    ELSE <<NoneVal, NoneVal>>

\* the paths of translate_meta_tags that call st.error
ShowsError(r) == r.kind # "object"

\* variant: no fallback, the returned pair is recorded as it is
translated_row_NoFallback(row, pair) ==
    [title_en |-> row.title, desc_en |-> row.description,
     title_ar |-> pair[1], desc_ar |-> pair[2]]

\* variant: the two target fields are filled the wrong way round
translated_row_Swapped(row, pair) ==
    IF pair[1] = NoneVal \/ pair[2] = NoneVal
    THEN [title_en |-> row.title, desc_en |-> row.description,
          title_ar |-> SkippedMarker, desc_ar |-> SkippedMarker]
    ELSE [title_en |-> row.title, desc_en |-> row.description,
          title_ar |-> pair[2], desc_ar |-> pair[1]]

\* variant: each target field falls back on its own
translated_row_PerField(row, pair) ==
    [title_en |-> row.title, desc_en |-> row.description,
     title_ar |-> IF pair[1] = NoneVal THEN SkippedMarker ELSE pair[1],
     desc_ar |-> IF pair[2] = NoneVal THEN SkippedMarker ELSE pair[2]]

translated_row(row, pair) ==
    IF pair[1] = NoneVal \/ pair[2] = NoneVal
    THEN [title_en |-> row.title, desc_en |-> row.description,
          title_ar |-> SkippedMarker, desc_ar |-> SkippedMarker]
    ELSE [title_en |-> row.title, desc_en |-> row.description,
          title_ar |-> pair[1], desc_ar |-> pair[2]]

\* progress_bar.progress(p / n) refuses a value above 1.0
ProgressRejects(p, n) == p > n

NoReply == [kind |-> "none", data |-> << >>]

\* ------------------------------------------------------------------- init
Init ==
    /\ stop_translation = FALSE
    /\ translation_started = FALSE
    /\ output_data = << >>
    /\ progress = 0
    /\ df \in { Table(n) : n \in 0..MaxRows }
    /\ pc = "idle"
    /\ i = 0
    /\ reply = NoReply
    /\ api_key = FALSE
    /\ uploaded_file = "none"
    /\ call_log = << >>
    /\ cuts = 0
    /\ restarted = FALSE
    /\ download = NoDownload
    /\ last_pass = "none"

\* ----------------------------------------------------------------- passes
\* line 102: no file or no credential
PassNoInput ==
    /\ pc = "idle"
    /\ \E key \in BOOLEAN, file \in UploadedFiles :
          /\ ~Ready(key, file)
          /\ ReadInputs(key, file)
    /\ last_pass' = "no_input"
    /\ UNCHANGED <<session, df, pc, i, reply, history>>

\* lines 105-106: a required column is missing
PassMissingColumn ==
    /\ pc = "idle"
    /\ \E key \in BOOLEAN, file \in UploadedFiles :
          /\ Ready(key, file)
          /\ ~ColumnsPresent(file)
          /\ ReadInputs(key, file)
    /\ last_pass' = "missing_column"
    /\ UNCHANGED <<session, df, pc, i, reply, history>>

\* lines 110-111: not started, the Start button is drawn and was not pressed
PassShowStart ==
    /\ pc = "idle"
    /\ \E key \in BOOLEAN, file \in UploadedFiles :
          /\ Ready(key, file)
          /\ ColumnsPresent(file)
          /\ ReadInputs(key, file)
    /\ ~translation_started
    /\ last_pass' = "not_started"
    /\ UNCHANGED <<session, df, pc, i, reply, history>>

\* variant: the Start handler leaves the rows of the earlier run in place
StartTranslation_KeepsRows ==
    /\ pc = "idle"
    /\ \E key \in BOOLEAN, file \in UploadedFiles :
          /\ Ready(key, file)
          /\ ColumnsPresent(file)
          /\ ReadInputs(key, file)
    /\ ~translation_started
    /\ translation_started' = TRUE
    /\ stop_translation' = FALSE
    /\ progress' = 0
    /\ call_log' = << >>
    /\ cuts' = 0
    /\ restarted' = (output_data # << >>)
    /\ last_pass' = "start"
    /\ UNCHANGED <<output_data, df, pc, i, reply>>

\* variant: the pass of the Start press goes on into the loop
StartTranslation_FallsThrough ==
    /\ pc = "idle"
    /\ \E key \in BOOLEAN, file \in UploadedFiles :
          /\ Ready(key, file)
          /\ ColumnsPresent(file)
          /\ ReadInputs(key, file)
    /\ ~translation_started
    /\ translation_started' = TRUE
    /\ stop_translation' = FALSE
    /\ output_data' = << >>
    /\ progress' = 0
    /\ call_log' = << >>
    /\ cuts' = 0
    /\ restarted' = (output_data # << >>)
    /\ last_pass' = "start"
    /\ pc' = "progress_bar"
    /\ UNCHANGED <<df, i, reply>>

\* lines 110-115: not started, the Start button was pressed
StartTranslation ==
    /\ pc = "idle"
    /\ \E key \in BOOLEAN, file \in UploadedFiles :
          /\ Ready(key, file)
          /\ ColumnsPresent(file)
          /\ ReadInputs(key, file)
    /\ ~translation_started
    /\ translation_started' = TRUE
    /\ stop_translation' = FALSE
    /\ output_data' = << >>
    /\ progress' = 0
    /\ call_log' = << >>
    /\ cuts' = 0
    /\ restarted' = (output_data # << >>)
    /\ last_pass' = "start"
    /\ UNCHANGED <<df, pc, i, reply>>

\* lines 116-118: started, the Stop button is drawn and may have been pressed
BeginLoopPass ==
    /\ pc = "idle"
    /\ \E key \in BOOLEAN, file \in UploadedFiles :
          /\ Ready(key, file)
          /\ ColumnsPresent(file)
          /\ ReadInputs(key, file)
    /\ translation_started
    /\ \E stop_pressed \in BOOLEAN :
          stop_translation' = (stop_translation \/ stop_pressed)
    /\ pc' = "progress_bar"
    /\ last_pass' = "running"
    /\ UNCHANGED <<translation_started, output_data, progress, df, i, reply, history>>

\* lines 120-121
ShowProgress ==
    /\ pc = "progress_bar"
    /\ IF total_rows > 0 /\ ProgressRejects(progress, total_rows)
       THEN /\ pc' = "idle"
            /\ last_pass' = "raised"
            /\ i' = 0
       ELSE /\ pc' = "loop"
            /\ i' = 1
            /\ UNCHANGED last_pass
    /\ UNCHANGED <<session, df, reply, inputs, history, download>>

\* variant: the iteration leaves out the last row of the table
LoopHead_SkipsLastRow ==
    /\ pc = "loop"
    /\ IF i >= total_rows \/ stop_translation
       THEN /\ pc' = "after_loop"
            /\ UNCHANGED call_log
       ELSE /\ pc' = "request"
            /\ call_log' = Append(call_log, i)
    /\ UNCHANGED <<session, df, i, reply, inputs, cuts, restarted, download, last_pass>>

\* lines 123-130 and 69: next row, stop check, request sent
LoopHead ==
    /\ pc = "loop"
    /\ IF i > total_rows \/ stop_translation
       THEN /\ pc' = "after_loop"
            /\ UNCHANGED call_log
       ELSE /\ pc' = "request"
            /\ call_log' = Append(call_log, i)
    /\ UNCHANGED <<session, df, i, reply, inputs, cuts, restarted, download, last_pass>>

\* lines 69-88: the request returns or fails
Respond ==
    /\ pc = "request"
    /\ reply' \in Replies
    /\ pc' = "translated"
    /\ UNCHANGED <<session, df, i, inputs, history, download, last_pass>>

\* variant: a failed translation leaves the loop instead of recording the row
AppendRow_BreaksOnFailure ==
    /\ pc = "translated"
    /\ IF NoneVal \in {translate_meta_tags(reply)[1], translate_meta_tags(reply)[2]}
       THEN /\ pc' = "after_loop"
            /\ UNCHANGED output_data
       ELSE /\ pc' = "write"
            /\ output_data' = Append(output_data,
                                     translated_row(df[i], translate_meta_tags(reply)))
    /\ UNCHANGED <<stop_translation, translation_started, progress, df, i,
                   reply, inputs, history, download, last_pass>>

\* lines 127-147
AppendRow ==
    /\ pc = "translated"
    /\ output_data' = Append(output_data, translated_row(df[i], translate_meta_tags(reply)))
    /\ pc' = "write"
    /\ UNCHANGED <<stop_translation, translation_started, progress, df, i,
                   reply, inputs, history, download, last_pass>>

\* lines 148-149
CountRow ==
    /\ pc = "write"
    /\ progress' = progress + 1
    /\ reply' = NoReply
    /\ pc' = "bar_update"
    /\ UNCHANGED <<stop_translation, translation_started, output_data, df, i,
                   inputs, history, download, last_pass>>

\* lines 150-152
UpdateProgress ==
    /\ pc = "bar_update"
    /\ IF ProgressRejects(progress, total_rows)
       THEN /\ pc' = "idle"
            /\ last_pass' = "raised"
            /\ i' = 0
       ELSE /\ pc' = "loop"
            /\ i' = i + 1
            /\ UNCHANGED last_pass
    /\ UNCHANGED <<session, df, reply, inputs, history, download>>

\* ---------------------------------------------------------------- exporter
FourColumns ==
    <<"Meta Title (EN)", "Meta Description (EN)", "Meta Title (AR)", "Meta Description (AR)">>

\* the value a row dict holds under the c-th column name
Field(row, c) ==
    CASE c = 1 -> row.title_en
      [] c = 2 -> row.desc_en
      [] c = 3 -> row.title_ar
      [] c = 4 -> row.desc_ar

\* line 156: pd.DataFrame of a list of dicts takes its columns from the keys
\* of the dicts; an empty list gives a frame without columns
DataFrame(data) ==
    [columns |-> IF Len(data) = 0 THEN << >> ELSE FourColumns, rows |-> data]

EmptyCell == "<empty cell>"
NaN == "<NaN>"

\* the writer stores an empty string as a cell without value
WriteCell(v) == IF v = EmptyStr THEN EmptyCell ELSE v

\* lines 161-165: header row, then one row of cells per row of the frame
convert_df(frame) ==
    IF Len(frame.columns) = 0
    THEN << >>
    ELSE << frame.columns >>
         \o [k \in 1..Len(frame.rows) |->
                [c \in 1..Len(frame.columns) |-> WriteCell(Field(frame.rows[k], c))]]

\* a cell without value is read as NaN
ReadCell(c) == IF c = EmptyCell THEN NaN ELSE c

\* pd.read_excel of the exported bytes
read_excel(sheet) ==
    IF Len(sheet) = 0
    THEN [columns |-> << >>, rows |-> << >>]
    ELSE [columns |-> sheet[1],
          rows |-> [k \in 1..(Len(sheet) - 1) |->
                      [title_en |-> ReadCell(sheet[k + 1][1]),
                       desc_en |-> ReadCell(sheet[k + 1][2]),
                       title_ar |-> ReadCell(sheet[k + 1][3]),
                       desc_ar |-> ReadCell(sheet[k + 1][4])]]]

\* lines 154-172
FinishPass ==
    /\ pc = "after_loop"
    /\ translation_started' = FALSE
    /\ download' = [offered |-> TRUE, data |-> convert_df(DataFrame(output_data))]
    /\ pc' = "idle"
    /\ i' = 0
    /\ last_pass' = "complete"
    /\ UNCHANGED <<stop_translation, output_data, progress, df, reply, inputs, history>>

\* the element-writing calls at which a pending widget event ends the pass:
\* lines 120-121, the st.error calls of lines 78-87, line 148, lines 150-151
YieldPoint ==
    \/ pc \in {"progress_bar", "write", "bar_update"}
    \/ pc = "translated" /\ ShowsError(reply)

CutShort ==
    /\ YieldPoint
    /\ cuts < MaxCuts
    /\ cuts' = cuts + 1
    /\ pc' = "idle"
    /\ i' = 0
    /\ reply' = NoReply
    /\ last_pass' = "cut"
    /\ UNCHANGED <<session, df, inputs, call_log, restarted, download>>

PassSteps ==
    \/ ShowProgress
    \/ LoopHead
    \/ Respond
    \/ AppendRow
    \/ CountRow
    \/ UpdateProgress
    \/ FinishPass

Next ==
    \/ PassNoInput
    \/ PassMissingColumn
    \/ PassShowStart
    \/ StartTranslation
    \/ BeginLoopPass
    \/ PassSteps
    \/ CutShort

Spec == Init /\ [][Next]_vars

\* a pass keeps running until it ends, and a started session is rendered again
FairSpec == Spec /\ WF_vars(PassSteps) /\ SF_vars(BeginLoopPass)

\* ----------------------------------------------------------------- claims
AtRest == pc \in {"idle", "loop", "after_loop"}

LastN(s, n) == SubSeq(s, Len(s) - n + 1, Len(s))

CarriesRow(entry, k) ==
    /\ entry.title_en = df[k].title
    /\ entry.desc_en = df[k].description

Failed(r) == NoneVal \in {translate_meta_tags(r)[1], translate_meta_tags(r)[2]}

\* C1: whenever no row iteration is in progress (loop head, loop exit, end of
\* a pass, a cut-short pass included) the number of entries of output_data
\* equals progress.
C1_LenEqualsProgress == AtRest => Len(output_data) = progress

\* C2: in every reachable state progress is at most the number of rows of
\* the uploaded table, also when a pass begins with started true and stopped
\* false.
C2_ProgressBounded == progress <= total_rows

C3_InSourceOrder ==
    /\ Len(output_data) <= total_rows
    /\ \A k \in 1..Len(output_data) : k <= total_rows /\ CarriesRow(output_data[k], k)

C3_AppendOnly ==
    \/ output_data' = << >> /\ last_pass' = "start"
    \/ /\ Len(output_data') >= Len(output_data)
       /\ SubSeq(output_data', 1, Len(output_data)) = output_data

\* C3: within one run output_data[k] carries the source fields of input row
\* k for every k up to its length, no input row appears twice, and an entry
\* already in output_data is never changed or removed.
C3_OncePerRowInOrder == []C3_InSourceOrder /\ [][C3_AppendOnly]_vars

StartPress == pc = "idle" /\ ~translation_started /\ last_pass' = "start"

C4_FreshRun ==
    (translation_started /\ cuts = 0) =>
        /\ call_log = [k \in 1..Len(call_log) |-> k]
        /\ Len(output_data) <= Len(call_log)
        /\ \A k \in 1..Len(output_data) : CarriesRow(output_data[k], k)

\* C4: pressing Start while not started, whatever the earlier runs left
\* behind, gives started, not stopped, no rows and progress 0; the new run
\* begins at the first row and holds no row of an earlier run.
C4_StartResets ==
    /\ [][StartPress => /\ translation_started'
                        /\ ~stop_translation'
                        /\ output_data' = << >>
                        /\ progress' = 0]_vars
    /\ []C4_FreshRun

C4_Witness ==
    /\ last_pass = "start"
    /\ restarted
    /\ translation_started /\ ~stop_translation
    /\ output_data = << >> /\ progress = 0

C5_Frozen ==
    (stop_translation /\ stop_translation') =>
        UNCHANGED <<output_data, progress, call_log>>

C5_StoppedRunCount ==
    (pc = "idle" /\ last_pass = "complete" /\ stop_translation) =>
        /\ progress = Len(output_data)
        /\ progress <= Len(call_log)

\* C5: once stopped is true no further translator call is made and no row
\* is appended or counted, so after a stopped run progress and the length of
\* output_data both equal the number of rows processed before the stop.
C5_StopCheckedFirst == [][C5_Frozen]_vars /\ []C5_StoppedRunCount

C6_RowFinished ==
    (pc \in {"request", "translated", "write"}) => (pc' # "idle")

\* C6: a Stop pressed after a row's iteration began never takes effect in
\* the middle of the row: the pass does not end between the request for a
\* row and the increment of progress for it.
C6_RowGranularity == [][C6_RowFinished]_vars

\* C7: every run that entered Running eventually returns to Idle
\* (started = false).
C7_ReturnsToIdle == translation_started ~> ~translation_started

C8_Finished ==
    \/ pc = "after_loop"
    \/ pc = "idle" /\ last_pass = "complete"

\* C8: after a full, uninterrupted run (Start pressed, Stop never pressed,
\* loop run to the last row) progress equals total_rows and output_data
\* holds total_rows entries, one per input row.
C8_FullRun ==
    (C8_Finished /\ cuts = 0 /\ ~stop_translation) =>
        /\ progress = total_rows
        /\ Len(output_data) = total_rows
        /\ \A k \in 1..total_rows : CarriesRow(output_data[k], k)

C8_Witness ==
    /\ pc = "idle" /\ last_pass = "complete"
    /\ cuts = 0 /\ ~stop_translation
    /\ total_rows >= 2
    /\ progress = total_rows

\* C9: in a pass over a table that lacks the title or the description
\* column no button is acted on, no translator call is made and started,
\* stopped, output_data and progress stay as they were.
C9_MissingColumnHalts ==
    [][(pc = "idle" /\ uploaded_file' \in {"no_title", "no_description", "no_columns"})
          => (pc' = "idle" /\ UNCHANGED <<session, call_log>>)]_vars

C9_Witness ==
    /\ last_pass = "missing_column"
    /\ uploaded_file = "no_title"
    /\ translation_started
    /\ output_data # << >>

C10_RowLocal ==
    (pc = "translated" /\ Failed(reply) /\ pc' # "idle") =>
        /\ pc' = "write"
        /\ Len(output_data') = Len(output_data) + 1
        /\ UNCHANGED <<stop_translation, translation_started, i>>

C10_AllRowsAttempted ==
    (pc = "after_loop" /\ ~stop_translation) =>
        /\ i = total_rows + 1
        /\ Len(call_log) >= total_rows
        /\ Len(output_data) >= total_rows
        /\ LastN(call_log, total_rows) = [k \in 1..total_rows |-> k]
        /\ \A k \in 1..total_rows :
              CarriesRow(LastN(output_data, total_rows)[k], k)

\* C10: a failed translation of a row never leaves the loop and changes
\* neither stopped nor started; the row is recorded and every later row is
\* still attempted, so an unstopped pass attempts and records all rows.
C10_FailureIsRowLocal == [][C10_RowLocal]_vars /\ []C10_AllRowsAttempted

C10_Witness ==
    /\ pc = "after_loop" /\ ~stop_translation
    /\ total_rows >= 2
    /\ Len(output_data) = total_rows
    /\ output_data[1].title_ar = SkippedMarker
    /\ output_data[2].title_ar = TitleAr

Appended(entry) == pc' = "write" /\ output_data' = Append(output_data, entry)

\* the row of the exported sheet that stands for output_data[k]
ExportedRow(k) == download.data[k + 1]

C11_Step ==
    (pc = "translated" /\ translate_meta_tags(reply) = <<NoneVal, NoneVal>> /\ pc' = "write")
        => Appended([title_en |-> df[i].title, desc_en |-> df[i].description,
                     title_ar |-> SkippedMarker, desc_ar |-> SkippedMarker])

C11_Exported ==
    download.offered =>
        \A k \in 1..Len(output_data) :
            output_data[k].title_ar = SkippedMarker =>
                ExportedRow(k) = <<output_data[k].title_en, output_data[k].desc_en,
                                   SkippedMarker, SkippedMarker>>

\* C11: for a row for which the translator returns (None, None) the row
\* appended to output_data, and the exported row, keep the source title and
\* description and have the failure marker in both target fields.
C11_SentinelGivesMarker == [][C11_Step]_vars /\ []C11_Exported

C11_Witness ==
    /\ pc = "write"
    /\ translate_meta_tags(reply) = <<NoneVal, NoneVal>>
    /\ output_data[Len(output_data)].title_ar = SkippedMarker
    /\ output_data[Len(output_data)].title_en = df[i].title

C12_Step ==
    (pc = "translated" /\ ~Failed(reply) /\ pc' = "write")
        => Appended([title_en |-> df[i].title, desc_en |-> df[i].description,
                     title_ar |-> translate_meta_tags(reply)[1],
                     desc_ar |-> translate_meta_tags(reply)[2]])

C12_Exported ==
    download.offered =>
        \A k \in 1..Len(output_data) :
            (output_data[k].title_ar = TitleAr /\ output_data[k].desc_ar = DescAr) =>
                ExportedRow(k) = <<output_data[k].title_en, output_data[k].desc_en,
                                   TitleAr, DescAr>>

Sentinel == <<NoneVal, NoneVal>>

\* the reply's content is an object with both a title and a description member
TwoFieldObject(r) == r.kind = "object" /\ DOMAIN r.data = JsonKeys

\* C13: the translator returns (None, None) when the HTTP call raises, when
\* the response has no non-empty choices and whenever the content is not an
\* object with both a title and a description member, an object lacking one
\* of the two included.
C13_SentinelUnlessTwoFields ==
    (pc = "translated" /\ ~TwoFieldObject(reply)) => translate_meta_tags(reply) = Sentinel

\* C13, amended: the translator returns (None, None) when the HTTP call
\* raises, when the response has no non-empty choices and when the content
\* is not valid JSON or is not an object; for an object that lacks a member
\* it returns the empty string in place of that member, not (None, None).
C13_SentinelUnlessObject ==
    pc = "translated" =>
        /\ reply.kind # "object" => translate_meta_tags(reply) = Sentinel
        /\ reply.kind = "object" =>
              /\ "title" \notin DOMAIN reply.data => translate_meta_tags(reply)[1] = EmptyStr
              /\ "description" \notin DOMAIN reply.data => translate_meta_tags(reply)[2] = EmptyStr

C13_Witness ==
    /\ pc = "translated"
    /\ reply.kind = "not_object"
    /\ translate_meta_tags(reply) = Sentinel

C14_OncePerRow ==
    \A j, k \in 1..Len(call_log) : j # k => call_log[j] # call_log[k]

C14_OneRequest == (pc = "request") => (call_log' = call_log)

C14_StaysFailed ==
    \A k \in 1..Len(output_data) :
        output_data[k].title_ar = SkippedMarker =>
            \/ last_pass' = "start" /\ output_data' = << >>
            \/ k <= Len(output_data') /\ output_data'[k] = output_data[k]

\* C14: within one run the translator is invoked at most once per input row
\* and each invocation issues one request; a row recorded with the failure
\* marker stays as it is until the next Start press.
C14_NoRetry ==
    /\ []C14_OncePerRow
    /\ [][C14_OneRequest /\ C14_StaysFailed]_vars

FourFields ==
    [columns |-> FourColumns, rows |-> output_data]

\* C15: for every output_data the exporter is given after the loop, the
\* empty one included, the exported sheet has exactly the four named
\* columns and one row per entry in insertion order, so that reading it
\* back gives output_data again.
C15_ExportRoundTrip ==
    download.offered => read_excel(download.data) = FourFields

C16_StartPassOnly ==
    StartPress => (pc' = "idle" /\ call_log' = << >> /\ output_data' = << >>)

C16_CallsInLaterPass ==
    (call_log' # call_log /\ call_log' # << >>) =>
        (pc = "loop" /\ translation_started /\ last_pass = "running")

C16_Waits ==
    (pc = "idle" /\ last_pass = "start") =>
        (call_log = << >> /\ output_data = << >> /\ progress = 0)

\* C16: the pass in which Start is pressed only resets the run state, calls
\* no translator and appends no row; rows are processed only in a later
\* pass that begins with started true.
C16_StartOnlyResets ==
    /\ [][C16_StartPassOnly /\ C16_CallsInLaterPass]_vars
    /\ []C16_Waits

C16_Witness ==
    /\ pc = "idle" /\ last_pass = "start"
    /\ translation_started
    /\ total_rows > 0
    /\ call_log = << >> /\ output_data = << >>

NullMember(r) ==
    /\ r.kind = "object"
    /\ \E key \in DOMAIN r.data : r.data[key] = JsonNull

C17_Step ==
    (pc = "translated" /\ pc' = "write" /\ Len(output_data') > 0) =>
        LET entry == output_data'[Len(output_data')]
            pair == translate_meta_tags(reply)
        IN  IF pair[1] = NoneVal \/ pair[2] = NoneVal
            THEN entry.title_ar = SkippedMarker /\ entry.desc_ar = SkippedMarker
            ELSE entry.title_ar # SkippedMarker /\ entry.desc_ar # SkippedMarker

C17_NoMixedRow ==
    \A k \in 1..Len(output_data) :
        (output_data[k].title_ar = SkippedMarker) <=> (output_data[k].desc_ar = SkippedMarker)

\* C17: if either component of the returned pair is None both target fields
\* of the appended row are the failure marker; no row has one target field
\* from the reply and the other from the fallback.
C17_AllOrNothing == [][C17_Step]_vars /\ []C17_NoMixedRow

C17_Witness ==
    /\ pc = "write"
    /\ NullMember(reply)
    /\ translate_meta_tags(reply) # Sentinel
    /\ output_data[Len(output_data)].title_ar = SkippedMarker
    /\ output_data[Len(output_data)].desc_ar = SkippedMarker

C18_Untouched == pc' = "idle" /\ UNCHANGED <<session, call_log>>

C18_NoInputPass ==
    (pc = "idle" /\ (~api_key' \/ uploaded_file' # "ok")) => C18_Untouched

C18_NoPressPass ==
    (pc = "idle" /\ ~translation_started /\ ~translation_started') => C18_Untouched

\* C18: a pass with no credential, or no file, or a missing column, or with
\* started false and no Start press, calls no translator and leaves
\* started, stopped, output_data and progress as they were.
C18_IdlePassChangesNothing == [][C18_NoInputPass /\ C18_NoPressPass]_vars

C18_Witness ==
    /\ pc = "idle" /\ last_pass = "no_input"
    /\ ~api_key /\ uploaded_file = "ok"
    /\ ~translation_started
    /\ output_data # << >> /\ progress > 0

====
